---- MODULE Spec2Model ----
(***************************************************************************)
(* Model of the UI state capture agent: WorkflowCapturer.run_task          *)
(* (src/src/capturer.py), the Oracle wrapper                               *)
(* VisionAgent.analyze_state_and_decide (src/src/vision_agent.py) and the  *)
(* Actuator primitives of BrowserManager (src/src/browser_manager.py).     *)
(*                                                                         *)
(* run_task is one coroutine; the model cuts it at its await points:       *)
(*   Start     os.makedirs + browser.start()              capturer 22-25   *)
(*   Navigate  browser.navigate(start_url), loop locals   capturer 28-32   *)
(*   LoopHead  while step < 20: step += 1                 capturer 34-35   *)
(*   Observe   capture_state_with_overlays, save image    capturer 38-49   *)
(*   Decide    Oracle call, record, history, loop guard,                   *)
(*             finish / fail / unknown dispatch           capturer 52-91   *)
(*   Act       click / type / press / scroll / navigate   capturer 92-221  *)
(*   Except    except Exception                           capturer 223-224 *)
(*   Finally   manifest write, browser.stop()             capturer 225-230 *)
(*                                                                         *)
(* Spec is the whole run, FairSpec the whole run in which every awaited    *)
(* call returns or raises.  FilterSpec applies                             *)
(* capture_state_with_overlays (browser_manager.py 152-296) to every scan  *)
(* of a bounded set; ResolverSpec dispatches every click and type proposal *)
(* of a bounded set on a set of captured pages (capturer.py 92-207).       *)
(***************************************************************************)
EXTENDS Integers, Sequences, FiniteSets, TLC

\* ------------------------------------------------------------------------
\* Bounds of the model (not program constants)
\* ------------------------------------------------------------------------

\* Number of events of one run that leave the routine: a step that observes
\* another element list than PageElements, a step at which the Oracle answers
\* something other than RoutineDecision(step), or a call that raises into
\* run_task.
MaxVaried == 1

\* Longest scan handed to the overlay filter on its own.
MaxRaw == 3

\* Largest element index a proposal names when an action is tried on its own.
MaxIndex == 6

\* Calls of capture_state_with_overlays on one page.
MaxCaptures == 2

\* ------------------------------------------------------------------------
\* Program constants
\* ------------------------------------------------------------------------

\* The loop test written as  while step <= 20.
StepLimitOffByOne == 20 + 1

\* while step < 20  (capturer.py:34)
StepLimit == 20

\* if consecutive_same_action >= 3  (capturer.py:78)
LoopThreshold == 3

\* ------------------------------------------------------------------------
\* Python values: str, int and None, and their f-string rendering
\* ------------------------------------------------------------------------

PyNone == [t |-> "none", s |-> "", n |-> 0]

PyStr(s) == [t |-> "str", s |-> s, n |-> 0]

PyInt(n) == [t |-> "int", s |-> "", n |-> n]

PyDict(d) == [t |-> "dict", d |-> d]

\* The empty dict {}.
EmptyDict == PyDict(<<>>)

\* f"{v}" for a str, an int or None.
Format(v) ==
    CASE v.t = "str" -> v.s
      [] v.t = "int" -> ToString(v.n)
      [] OTHER -> "None"

\* bool(v): the truth value Python gives a str, an int or None.
Truthy(v) ==
    CASE v.t = "str" -> v.s # ""
      [] v.t = "int" -> v.n # 0
      [] OTHER -> FALSE

\* d.get(k, default) on a dict (a record of the keys present).
DictGet(d, k, default) == IF k \in DOMAIN d THEN d[k] ELSE default

\* ------------------------------------------------------------------------
\* Strings: str.lower() and the substring test "needle in hay"
\* ------------------------------------------------------------------------

UpperLetters == "ABCDEFGHIJKLMNOPQRSTUVWXYZ"

LowerLetters == "abcdefghijklmnopqrstuvwxyz"

LowerChar(c) ==
    IF \E i \in 1..26 : SubSeq(UpperLetters, i, i) = c
    THEN LET i == CHOOSE j \in 1..26 : SubSeq(UpperLetters, j, j) = c
         IN  SubSeq(LowerLetters, i, i)
    ELSE c

RECURSIVE Lower(_)
Lower(s) ==
    IF Len(s) = 0 THEN ""
    ELSE LowerChar(SubSeq(s, 1, 1)) \o Lower(SubSeq(s, 2, Len(s)))

\* Python's  needle in hay  on two str.
Contains(hay, needle) ==
    \E i \in 0..(Len(hay) - Len(needle)) :
        SubSeq(hay, i + 1, i + Len(needle)) = needle

\* ------------------------------------------------------------------------
\* Elements of one step (the list capture_state_with_overlays returns)
\* ------------------------------------------------------------------------

Rect(x, y, w, h) == [x |-> x, y |-> y, width |-> w, height |-> h]

Element(tag, role, text, aria, rect) ==
    [tagName |-> tag, role |-> role, text |-> text, ariaLabel |-> aria,
     rect |-> rect]

\* el['rect']['width'] * el['rect']['height']
Area(el) == el.rect.width * el.rect.height

\* index: items.length  (browser_manager.py:113), and later el['index'] = i
\* (browser_manager.py:251): the element with its index field set to i.
WithIndex(el, i) ==
    [index |-> i, tagName |-> el.tagName, role |-> el.role, text |-> el.text,
     ariaLabel |-> el.ariaLabel, rect |-> el.rect]

\* The list get_interactive_elements returns for the elements found in the
\* order els: each carries its position in the scan as index.
Scanned(els) == [i \in 1..Len(els) |-> WithIndex(els[i], i - 1)]

\* ------------------------------------------------------------------------
\* Overlay filter and renderer:
\* BrowserManager.capture_state_with_overlays (browser_manager.py 164-296)
\* ------------------------------------------------------------------------

Max(a, b) == IF a >= b THEN a ELSE b

Min(a, b) == IF a <= b THEN a ELSE b

\* A float the code obtains by one division of two integers, kept as the
\* fraction (the model's boxes have integer sides).
Ratio(num, den) == [num |-> num, den |-> den]

\* q > num / den for a fraction q with positive denominator.
Above(q, num, den) == q.num * den > num * q.den

\* inter_area of compute_iou and compute_containment
\* (browser_manager.py 182-190, 205-213); 0 when the boxes do not overlap.
InterArea(rect1, rect2) ==
    LET xi1 == Max(rect1.x, rect2.x)
        yi1 == Max(rect1.y, rect2.y)
        xi2 == Min(rect1.x + rect1.width, rect2.x + rect2.width)
        yi2 == Min(rect1.y + rect1.height, rect2.y + rect2.height)
    IN  IF xi2 <= xi1 \/ yi2 <= yi1 THEN 0 ELSE (xi2 - xi1) * (yi2 - yi1)

\* compute_iou (browser_manager.py 176-197)
compute_iou(rect1, rect2) ==
    LET inter_area == InterArea(rect1, rect2)
        union_area == rect1.width * rect1.height
                      + rect2.width * rect2.height - inter_area
    IN  IF inter_area = 0 \/ union_area <= 0 THEN Ratio(0, 1)
        ELSE Ratio(inter_area, union_area)

\* compute_containment (browser_manager.py 199-216): how much of rect1 lies
\* within rect2.
compute_containment(rect1, rect2) ==
    LET inter_area == InterArea(rect1, rect2)
        area1      == rect1.width * rect1.height
    IN  IF inter_area = 0 \/ area1 <= 0 THEN Ratio(0, 1)
        ELSE Ratio(inter_area, area1)

\* The visibility test with the page's top and left edges excluded.
OnScreenOffTheEdge(el) ==
    /\ el.rect.x > 0
    /\ el.rect.y > 0
    /\ el.rect.width > 5
    /\ el.rect.height > 5

\* x >= 0 and y >= 0 and w > 5 and h > 5  (browser_manager.py:171)
OnScreen(el) ==
    /\ el.rect.x >= 0
    /\ el.rect.y >= 0
    /\ el.rect.width > 5
    /\ el.rect.height > 5

\* The test of is_input restricted to the tag: a role does not count.
IsInputByTagOnly(el) == el.tagName \in {"input", "textarea"}

\* is_input (browser_manager.py:228)
IsInput(el) ==
    \/ el.tagName \in {"input", "textarea"}
    \/ el.role \in {"textbox", "searchbox"}

\* The overlap test without its IoU half.
TooCloseByContainmentOnly(el, kept_el) ==
    Above(compute_containment(el.rect, kept_el.rect), 95, 100)

\* iou > 0.9 or containment > 0.95  (browser_manager.py 231-236)
TooClose(el, kept_el) ==
    \/ Above(compute_iou(el.rect, kept_el.rect), 9, 10)
    \/ Above(compute_containment(el.rect, kept_el.rect), 95, 100)

\* if el_area > 250000  (browser_manager.py:243)
AreaCeiling == 250000

\* The ceiling taken as 30% of the 1280x720 viewport.
TooLargeForViewportShare(el) == Area(el) > (1280 * 720 * 3) \div 10

\* el_area > 250000  (browser_manager.py:243)
TooLarge(el) == Area(el) > AreaCeiling

\* list.sort(key=area) on a list of positions: a stable ascending sort.
RECURSIVE InsertByArea(_, _, _)
InsertByArea(elements, sorted, i) ==
    IF sorted = <<>> THEN <<i>>
    ELSE IF Area(elements[Head(sorted) + 1]) <= Area(elements[i + 1])
         THEN <<Head(sorted)>> \o InsertByArea(elements, Tail(sorted), i)
         ELSE <<i>> \o sorted

RECURSIVE SortByArea(_, _)
SortByArea(elements, idxs) ==
    IF idxs = <<>> THEN <<>>
    ELSE InsertByArea(elements,
                      SortByArea(elements, SubSeq(idxs, 1, Len(idxs) - 1)),
                      idxs[Len(idxs)])

\* The 0-based positions 0 .. n-1 in order.
Positions(n) == [i \in 1..n |-> i - 1]

\* An ascending sort by area that puts equal areas in reverse scan order.
SortedByAreaLastFirst(els) ==
    LET n     == Len(els)
        order == SortByArea(els, [i \in 1..n |-> n - i])
    IN  [i \in 1..n |-> els[order[i] + 1]]

\* visible_elements.sort(key=area)  (browser_manager.py:219)
SortedByArea(els) ==
    LET order == SortByArea(els, Positions(Len(els)))
    IN  [i \in 1..Len(els) |-> els[order[i] + 1]]

\* browser_manager.py 222-245: the greedy pass over the sorted list from
\* position i on, filtered_elements being kept so far.
RECURSIVE GreedyFrom(_, _, _)
GreedyFrom(sorted, i, kept) ==
    IF i > Len(sorted) THEN kept
    ELSE LET el == sorted[i]
             is_input == IsInput(el)
             should_keep ==
                 ~\E k \in 1..Len(kept) : TooClose(el, kept[k]) /\ ~is_input
         IN  IF should_keep /\ ~(TooLarge(el) /\ ~is_input)
             THEN GreedyFrom(sorted, i + 1, Append(kept, el))
             ELSE GreedyFrom(sorted, i + 1, kept)

\* The survivors keep the index the scan gave them.
KeepScanIndex(els) == els

\* for i, el in enumerate(visible_elements): el['index'] = i
\* (browser_manager.py 250-251)
Reindex(els) == [i \in 1..Len(els) |-> WithIndex(els[i], i - 1)]

\* browser_manager.py 166-251: the list capture_state_with_overlays returns
\* for the scan all_elements.
OverlayFilter(all_elements) ==
    Reindex(GreedyFrom(SortedByArea(SelectSeq(all_elements, OnScreen)),
                       1, <<>>))

\* browser_manager.py 264-287: the box and the tag drawn for each element of
\* the list, in drawing order; the tag's text is str(i) of enumerate.
DrawOverlays(els) ==
    [i \in 1..Len(els) |-> [tag_text |-> ToString(i - 1), rect |-> els[i].rect]]

\* A page as scanned, in document order: a toolbar that spans the page, a
\* link scrolled out of view, buttons, a link, an empty text field, and a
\* menu entry; the "Create issue" button sits in a wrapper hardly larger
\* than itself.
ScannedPage ==
    Scanned(
    << Element("div", "toolbar", "x + Crate Create issue Create", "",
               Rect(0, 0, 1280, 720)),
       Element("a", "", "Skip to content", "", Rect(10, -40, 100, 20)),
       Element("button", "", "x", "Close", Rect(240, 10, 20, 20)),
       Element("button", "", "+", "Create issue", Rect(200, 10, 16, 16)),
       Element("a", "", "Crate", "", Rect(10, 50, 40, 20)),
       Element("input", "", "", "", Rect(10, 100, 120, 10)),
       Element("button", "", "Create issue", "", Rect(10, 150, 70, 20)),
       Element("div", "button", "Create issue", "", Rect(10, 150, 72, 20)),
       Element("li", "menuitem", "Create", "", Rect(10, 200, 100, 30)) >>)

\* The labelled page: what the overlay filter leaves of ScannedPage, six
\* elements in ascending order of area (position i carries label i - 1).
PageElements == OverlayFilter(ScannedPage)

\* The scans a step may observe: a page without interactive elements, and
\* the page above.
ScannedLists == { <<>>, ScannedPage }

\* ------------------------------------------------------------------------
\* Click resolution (capturer.py 93-158)
\* ------------------------------------------------------------------------

\* idx is not None and isinstance(idx, int) and 0 <= idx < len(elements)
ValidIndex(idx, elements) ==
    idx.t = "int" /\ 0 <= idx.n /\ idx.n < Len(elements)

\* The match in one direction only: the expected text occurs in the
\* element's text.
TextMatchOneWay(text, el) == Contains(Lower(el.text), Lower(text))

\* text.lower() in el_text or el_text in text.lower()
TextMatch(text, el) ==
    \/ Contains(Lower(el.text), Lower(text))
    \/ Contains(Lower(text), Lower(el.text))

\* full_text in combined_text or combined_text in full_text, where
\* combined_text = el_text + " " + el_aria
CombinedMatch(text, el) ==
    LET combined_text == Lower(el.text) \o " " \o Lower(el.ariaLabel)
    IN  \/ Contains(combined_text, Lower(text))
        \/ Contains(Lower(text), combined_text)

\* The loop of capturer.py 110-114: the 0-based positions, in scan order, of
\* the elements whose text matches the expected text.
RECURSIVE MatchesFrom(_, _, _)
MatchesFrom(elements, text, i) ==
    IF i >= Len(elements) THEN <<>>
    ELSE IF TextMatch(text, elements[i + 1])
         THEN <<i>> \o MatchesFrom(elements, text, i + 1)
         ELSE MatchesFrom(elements, text, i + 1)

\* The loop of capturer.py 136-146: the positions, in scan order, of the
\* elements whose text plus aria-label matches and whose area is above 500.
RECURSIVE BetterMatchesFrom(_, _, _)
BetterMatchesFrom(elements, text, i) ==
    IF i >= Len(elements) THEN <<>>
    ELSE IF CombinedMatch(text, elements[i + 1])
            /\ Area(elements[i + 1]) > 500
         THEN <<i>> \o BetterMatchesFrom(elements, text, i + 1)
         ELSE BetterMatchesFrom(elements, text, i + 1)

\* if el_area < 500 ... / if area > 500  (capturer.py:128, 145)
MinTargetArea == 500

\* The result of a branch's element lookup: the exception it raises, or the
\* coordinates (if any) it hands to click_element, with the position the
\* text verification settled on (verified) and the position finally used
\* (idx).
Resolution(raised, has, verified, idx, coords) ==
    [raised |-> raised, has_coords |-> has, verified |-> verified,
     idx |-> idx, coords |-> coords]

NoCoords == Rect(0, 0, 0, 0)

\* capturer.py 99-122: the element a valid index and the expected text
\* settle on after text verification.
VerifiedIndex(text, idx, elements) ==
    LET item_text == Lower(elements[idx + 1].text)
        mismatch  == /\ Truthy(text)
                     /\ ~Contains(item_text, Lower(text.s))
                     /\ ~Contains(Lower(text.s), item_text)
        matches   == SortByArea(elements, MatchesFrom(elements, text.s, 0))
    IN  IF mismatch /\ matches # <<>> THEN Head(matches) ELSE idx

\* The small-target rule without its test of the expected text's length.
SmallTargetIndexAnyLength(text, idx, elements) ==
    LET el_area == Area(elements[idx + 1])
        small   == el_area < MinTargetArea /\ Truthy(text)
        better_matches ==
            SortByArea(elements, BetterMatchesFrom(elements, text.s, 0))
    IN  IF small /\ better_matches # <<>> THEN Head(better_matches) ELSE idx

\* capturer.py 124-156: the small-target rule applied to position idx.
SmallTargetIndex(text, idx, elements) ==
    LET el_area == Area(elements[idx + 1])
        small   == el_area < MinTargetArea /\ Truthy(text) /\ Len(text.s) > 3
        better_matches ==
            SortByArea(elements, BetterMatchesFrom(elements, text.s, 0))
    IN  IF small /\ better_matches # <<>> THEN Head(better_matches) ELSE idx

\* capturer.py 93-158 for a params dict d.
ResolveClick(d, elements) ==
    LET text == DictGet(d, "text", PyNone)
        idx  == DictGet(d, "element_index", PyNone)
    IN  IF ~ValidIndex(idx, elements)
        THEN Resolution(FALSE, FALSE, -1, -1, NoCoords)
        ELSE IF Truthy(text) /\ text.t # "str"
             \* text.lower() on an int: AttributeError
             THEN Resolution(TRUE, FALSE, idx.n, idx.n, NoCoords)
             ELSE LET i1 == VerifiedIndex(text, idx.n, elements)
                      i2 == SmallTargetIndex(text, i1, elements)
                  IN  Resolution(FALSE, TRUE, i1, i2, elements[i2 + 1].rect)

\* capturer.py 177-199: the element lookup of the type branch.
ResolveType(d, elements) ==
    LET idx == DictGet(d, "element_index", PyNone)
    IN  IF idx.t # "none" /\ ValidIndex(idx, elements)
        THEN Resolution(FALSE, TRUE, idx.n, idx.n, elements[idx.n + 1].rect)
        ELSE Resolution(FALSE, FALSE, -1, -1, NoCoords)

\* No element lookup took place in this step.
NoResolution == Resolution(FALSE, FALSE, -1, -1, NoCoords)

\* ------------------------------------------------------------------------
\* Actuator: BrowserManager.click_element (browser_manager.py 333-390)
\* ------------------------------------------------------------------------

Event(e, x, y) == [e |-> e, x |-> x, y |-> y]

\* One way a call can go: the page events it caused, and whether it raised.
Outcome(trace, raised) == [trace |-> trace, raised |-> raised]

\* x = coords["x"] + coords["width"] / 2 ; y likewise.  The division is a
\* float division: points are counted in half pixels.
CenterX(c) == 2 * c.x + c.width

CenterY(c) == 2 * c.y + c.height

\* The events of a coordinate click that clicks before it shows the marker.
CoordinateEventsClickFirst(c) ==
    << Event("mouse_click", CenterX(c), CenterY(c)),
       Event("cursor", CenterX(c), CenterY(c)),
       Event("screenshot", 0, 0) >>

\* browser_manager.py 342-357: the events of the coordinate click, in order.
CoordinateEvents(c) ==
    << Event("cursor", CenterX(c), CenterY(c)),
       Event("screenshot", 0, 0),
       Event("mouse_click", CenterX(c), CenterY(c)) >>

\* The coordinate click raises at one of its four awaits: the events that
\* happened before it.
CoordinateFailures(c) ==
    { SubSeq(CoordinateEvents(c), 1, k) : k \in 0..3 }

\* browser_manager.py 368-386: events of a locator click that returns
\* (bounding_box() may be None, then no cursor is shown).
LocatorSuccesses ==
    { << Event("locator_cursor", 0, 0), Event("locator_click", 0, 0) >>,
      << Event("locator_click", 0, 0) >> }

\* The locator click raises: the events that happened before it.
LocatorFailures ==
    { <<>>,
      << Event("locator_cursor", 0, 0) >>,
      << Event("locator_cursor", 0, 0), Event("locator_click", 0, 0) >>,
      << Event("locator_click", 0, 0) >> }

\* browser_manager.py 361-390: the selector / text fallback, entered after
\* the events in before.
FallbackOutcomes(selector, text_content, before) ==
    IF Truthy(selector) \/ Truthy(text_content)
    THEN { Outcome(before \o t, FALSE) : t \in LocatorSuccesses }
         \cup { Outcome(before \o t, TRUE) : t \in LocatorFailures }
    ELSE { Outcome(before, TRUE) }

\* click_element(text_content, selector, coords): every way it can go.
ClickElement(text_content, selector, has_coords, coords) ==
    IF has_coords
    THEN { Outcome(CoordinateEvents(coords), FALSE) }
         \cup UNION { FallbackOutcomes(selector, text_content, f) :
                        f \in CoordinateFailures(coords) }
    ELSE FallbackOutcomes(selector, text_content, <<>>)

\* ------------------------------------------------------------------------
\* Oracle: the payloads VisionAgent.analyze_state_and_decide may parse
\* ------------------------------------------------------------------------

\* vision_agent.py:20: the prompt carries interactive_elements[:500].
ElementCap == 500

OracleElements(elements) ==
    SubSeq(elements, 1, Min(Len(elements), ElementCap))

Proposal(action, d) ==
    [thought |-> PyStr("t"), action |-> PyStr(action), params |-> PyDict(d)]

ClickFour == Proposal("click", [text |-> PyStr(""), element_index |-> PyInt(4)])

PressTab == Proposal("press", [key |-> PyStr("Tab")])

\* What the Oracle answers at a step where it does not vary: two clicks on
\* label 4, two Tab presses, and so on (the loop guard counts to 2, then
\* resets).
RoutineDecision(n) == IF (n - 1) % 4 < 2 THEN ClickFour ELSE PressTab

\* The payloads json.loads(content) may return (vision_agent.py:149).
OracleAnswers ==
    { ClickFour,
      PressTab,
      Proposal("press", [key |-> PyStr("Enter")]),
      Proposal("click", [text |-> PyStr("Create"), element_index |-> PyInt(2)]),
      Proposal("click", <<>>),
      Proposal("click", [text |-> PyInt(2024), element_index |-> PyInt(2)]),
      Proposal("type", [text |-> PyStr("hello")]),
      Proposal("type", [text |-> PyStr("hello"), selector |-> PyStr("#title")]),
      Proposal("type", [text |-> PyStr("hello"), element_index |-> PyInt(3)]),
      Proposal("scroll", [direction |-> PyStr("down")]),
      Proposal("navigate", [url |-> PyStr("https://app")]),
      Proposal("finish", <<>>),
      Proposal("fail", [reason |-> PyStr("blocked")]),
      Proposal("hover", <<>>),
      [thought |-> PyStr("t")],
      [thought |-> PyStr("t"), action |-> PyStr("click"), params |-> PyNone] }

\* The ways the Oracle call fails inside the try of vision_agent.py 137-149:
\* the request raises, or the content is not parsable JSON.
OracleErrors == { "request failed", "invalid json" }

\* vision_agent.py 150-152: the decision returned for an exception e.
ErrorDecision(e) ==
    [action |-> PyStr("fail"), params |-> PyDict([reason |-> PyStr(e)])]

\* ------------------------------------------------------------------------
\* State
\* ------------------------------------------------------------------------

VARIABLES
    pc,                       \* position of run_task
    session,                  \* browser session: "absent", "partial", "open", "closed"
    stop_calls,               \* number of calls of BrowserManager.stop
    step,                     \* run_task's step
    consecutive_same_action,  \* run_task's consecutive_same_action
    last_action_key,          \* run_task's last_action_key
    interactive_elements,     \* the element list of the current step
    decision,                 \* the decision of the current step
    oracle_error,             \* the exception of the current Oracle call, or ""
    history,                  \* self.history
    captured_states,          \* self.captured_states
    manifest,                 \* the documents written to manifest.json
    outcome,                  \* how the loop was left
    error,                    \* the call that raised, or "none"
    actuator_log,             \* page events of the current step's action
    dispatched,               \* the steps whose action went to the Actuator
    varied,                   \* events that left the routine so far
    all_elements,             \* the scan of the current step
    drawn,                    \* the boxes and tags drawn on the screenshot
    oracle_elements,          \* the element list put into the Oracle's prompt
    filter_runs,              \* runs of the overlay filter so far
    resolution                \* the element lookup of the current step's action

vars == << pc, session, stop_calls, step, consecutive_same_action,
           last_action_key, interactive_elements, decision, oracle_error,
           history, captured_states, manifest, outcome, error, actuator_log,
           dispatched, varied, all_elements, drawn, oracle_elements,
           filter_runs, resolution >>

\* The task handed to run_task.
Task == "create an issue"

NoDecision == [thought |-> PyNone]

\* WorkflowCapturer.__init__ (capturer.py 11-16), before run_task runs.
Init ==
    /\ pc = "start"
    /\ session = "absent"
    /\ stop_calls = 0
    /\ step = 0
    /\ consecutive_same_action = 0
    /\ last_action_key = PyNone
    /\ interactive_elements = <<>>
    /\ decision = NoDecision
    /\ oracle_error = ""
    /\ history = <<>>
    /\ captured_states = <<>>
    /\ manifest = <<>>
    /\ outcome = "running"
    /\ error = "none"
    /\ actuator_log = <<>>
    /\ dispatched = {}
    /\ varied = 0
    /\ all_elements = <<>>
    /\ drawn = <<>>
    /\ oracle_elements = <<>>
    /\ filter_runs = 0
    /\ resolution = NoResolution

\* The run stays on the routine.
Routine == varied' = varied

\* The run leaves the routine once more.
Varies ==
    /\ varied < MaxVaried
    /\ varied' = varied + 1

\* An exception raised inside the try block: control goes to the except
\* clause (capturer.py:223).
Raise(source) ==
    /\ Varies
    /\ pc' = "except"
    /\ error' = source

\* ------------------------------------------------------------------------
\* Loop guard (capturer.py 74-84)
\* ------------------------------------------------------------------------

\* A key that tells the pressed key apart as well.
ActionKeyWithKey(action, d) ==
    Format(action) \o "_" \o Format(DictGet(d, "text", PyStr("")))
                   \o "_" \o Format(DictGet(d, "element_index", PyStr("")))
                   \o "_" \o Format(DictGet(d, "key", PyStr("")))

\* f"{action}_{params.get('text', '')}_{params.get('element_index', '')}"
ActionKey(action, d) ==
    Format(action) \o "_" \o Format(DictGet(d, "text", PyStr("")))
                   \o "_" \o Format(DictGet(d, "element_index", PyStr("")))

\* consecutive_same_action after the guard has seen key.
GuardCount(key, last, count) ==
    IF PyStr(key) = last THEN count + 1 ELSE 1

\* last_action_key after the guard has seen key.
GuardKey(key, last) ==
    IF PyStr(key) = last THEN last ELSE PyStr(key)

\* The guard with the threshold test  >= 2.
GuardBreaksOnSecond(key, last, count) ==
    PyStr(key) = last /\ count + 1 >= LoopThreshold - 1

\* The guard breaks out of the loop on key.
GuardBreaks(key, last, count) ==
    PyStr(key) = last /\ count + 1 >= LoopThreshold

\* ------------------------------------------------------------------------
\* run_task
\* ------------------------------------------------------------------------

\* capturer.py 22-25: os.makedirs and browser.start(), both outside the try.
\* start() raises either before anything was launched or after playwright
\* was started and the context launch failed.
Start ==
    /\ pc = "start"
    /\ \/ /\ pc' = "navigate"
          /\ session' = "open"
          /\ error' = error
          /\ Routine
       \/ /\ pc' = "raised"
          /\ session' = "absent"
          /\ error' = "makedirs"
          /\ Varies
       \/ /\ pc' = "raised"
          /\ session' \in {"absent", "partial"}
          /\ error' = "start"
          /\ Varies
    /\ UNCHANGED << stop_calls, step, consecutive_same_action,
                    last_action_key, interactive_elements, decision,
                    oracle_error, history, captured_states, manifest,
                    outcome, actuator_log, dispatched, all_elements, drawn,
                    resolution,
                    oracle_elements, filter_runs >>

\* capturer.py 28-32: navigate to the start URL, then set the loop locals.
Navigate ==
    /\ pc = "navigate"
    /\ \/ /\ pc' = "loop"
          /\ error' = error
          /\ step' = 0
          /\ consecutive_same_action' = 0
          /\ last_action_key' = PyNone
          /\ Routine
       \/ /\ Raise("navigate")
          /\ UNCHANGED << step, consecutive_same_action, last_action_key >>
    /\ UNCHANGED << session, stop_calls, interactive_elements, decision,
                    oracle_error, history, captured_states, manifest,
                    outcome, actuator_log, dispatched, all_elements, drawn,
                    resolution,
                    oracle_elements, filter_runs >>

\* capturer.py 34-35: the loop test and step += 1; when the test fails the
\* loop is left through the step ceiling.
LoopHead ==
    /\ pc = "loop"
    /\ IF step < StepLimit
       THEN /\ step' = step + 1
            /\ pc' = "observe"
            /\ outcome' = outcome
       ELSE /\ step' = step
            /\ pc' = "finally"
            /\ outcome' = "ceiling"
    /\ actuator_log' = <<>>
    /\ resolution' = NoResolution
    /\ UNCHANGED << session, stop_calls, consecutive_same_action,
                    last_action_key, interactive_elements, decision,
                    oracle_error, history, captured_states, manifest,
                    error, dispatched, varied, all_elements, drawn,
                    oracle_elements, filter_runs >>

\* capturer.py 38-49: capture_state_with_overlays (browser_manager.py
\* 164-296) and the write of the annotated screenshot.  The scan, the
\* screenshot, the drawing or the write may raise.
Observe ==
    /\ pc = "observe"
    /\ \/ \E scan \in ScannedLists :
             /\ all_elements' = scan
             /\ interactive_elements' = OverlayFilter(scan)
             /\ drawn' = DrawOverlays(OverlayFilter(scan))
             /\ filter_runs' = filter_runs + 1
             /\ pc' = "decide"
             /\ error' = error
             /\ IF scan = ScannedPage THEN Routine ELSE Varies
       \/ /\ \E source \in {"scan", "screenshot"} : Raise(source)
          /\ UNCHANGED << all_elements, interactive_elements, drawn,
                          filter_runs >>
    /\ UNCHANGED << session, stop_calls, step, consecutive_same_action,
                    last_action_key, decision, oracle_error, history,
                    captured_states, manifest, outcome, actuator_log,
                    dispatched, resolution,
                    oracle_elements >>

\* capturer.py 57-65: state_data (timestamp, screenshot name and url, which
\* come from the clock and the page, are left out).
StepRecord(n, d) ==
    [step          |-> n,
     agent_thought |-> DictGet(d, "thought", PyNone),
     action_taken  |-> DictGet(d, "action", PyNone),
     action_params |-> DictGet(d, "params", PyNone)]

\* capturer.py 72: the content of f"Step {step}: {action} {params}".
HistoryEntry(n, d) ==
    [step   |-> n,
     action |-> DictGet(d, "action", PyNone),
     params |-> DictGet(d, "params", EmptyDict)]

\* The action kinds that run_task hands to the Actuator (capturer.py 92-216).
ActuatorActions == {"click", "type", "press", "scroll", "navigate"}

\* The branch without its  elif action == "fail"  arm: a fail proposal is
\* an unknown action and the loop goes on.
BranchWithoutFail(action, breaks) ==
    IF breaks
    THEN [pc |-> "finally", outcome |-> "stalled"]
    ELSE IF action = PyStr("finish")
    THEN [pc |-> "finally", outcome |-> "finished"]
    ELSE IF action.t = "str" /\ action.s \in ActuatorActions
    THEN [pc |-> "act", outcome |-> "running"]
    ELSE [pc |-> "loop", outcome |-> "running"]

\* capturer.py 76-91 and 217-218: where the step goes once the guard has
\* run: out of the loop (guard, finish, fail), to the Actuator, or, for an
\* unknown action, straight to the settle delay.
Branch(action, breaks) ==
    IF breaks
    THEN [pc |-> "finally", outcome |-> "stalled"]
    ELSE IF action = PyStr("finish")
    THEN [pc |-> "finally", outcome |-> "finished"]
    ELSE IF action = PyStr("fail")
    THEN [pc |-> "finally", outcome |-> "failed"]
    ELSE IF action.t = "str" /\ action.s \in ActuatorActions
    THEN [pc |-> "act", outcome |-> "running"]
    ELSE [pc |-> "loop", outcome |-> "running"]

\* The step with the loop guard run first: a proposal that stalls the run is
\* neither recorded nor put in history.
DecidedGuardFirst(d) ==
    LET action == DictGet(d, "action", PyNone)
        params == DictGet(d, "params", EmptyDict)
    IN  /\ decision' = d
        /\ IF params.t # "dict"
           THEN /\ captured_states' = Append(captured_states, StepRecord(step, d))
                /\ history' = Append(history, HistoryEntry(step, d))
                /\ pc' = "except"
                /\ error' = "params"
                /\ UNCHANGED << consecutive_same_action, last_action_key,
                                outcome >>
           ELSE LET key    == ActionKey(action, params.d)
                    breaks == GuardBreaks(key, last_action_key,
                                          consecutive_same_action)
                    to     == Branch(action, breaks)
                IN  /\ captured_states' =
                          IF breaks THEN captured_states
                          ELSE Append(captured_states, StepRecord(step, d))
                    /\ history' =
                          IF breaks THEN history
                          ELSE Append(history, HistoryEntry(step, d))
                    /\ consecutive_same_action' =
                          GuardCount(key, last_action_key,
                                     consecutive_same_action)
                    /\ last_action_key' = GuardKey(key, last_action_key)
                    /\ error' = error
                    /\ pc' = to.pc
                    /\ outcome' = to.outcome

\* capturer.py 53-91 and 217-221 for the decision d of this step: record,
\* history, loop guard, then the branch on the action.
Decided(d) ==
    LET action == DictGet(d, "action", PyNone)
        params == DictGet(d, "params", EmptyDict)
    IN  /\ decision' = d
        /\ captured_states' = Append(captured_states, StepRecord(step, d))
        /\ history' = Append(history, HistoryEntry(step, d))
        /\ IF params.t # "dict"
           THEN \* params.get on None: AttributeError (capturer.py:75)
                /\ pc' = "except"
                /\ error' = "params"
                /\ UNCHANGED << consecutive_same_action, last_action_key,
                                outcome >>
           ELSE LET key == ActionKey(action, params.d)
                    to  == Branch(action,
                                  GuardBreaks(key, last_action_key,
                                              consecutive_same_action))
                IN  /\ consecutive_same_action' =
                          GuardCount(key, last_action_key,
                                     consecutive_same_action)
                    /\ last_action_key' = GuardKey(key, last_action_key)
                    /\ error' = error
                    /\ pc' = to.pc
                    /\ outcome' = to.outcome

\* capturer.py 52: the Oracle call (vision_agent.py 137-152), followed by
\* the rest of the step up to the next await.
Decide ==
    /\ pc = "decide"
    /\ \/ \E a \in OracleAnswers :
             /\ a = RoutineDecision(step) \/ varied < MaxVaried
             /\ varied' = IF a = RoutineDecision(step) THEN varied
                                                       ELSE varied + 1
             /\ oracle_error' = ""
             /\ Decided(a)
       \/ \E e \in OracleErrors :
             /\ Varies
             /\ oracle_error' = e
             /\ Decided(ErrorDecision(e))
    /\ oracle_elements' = OracleElements(interactive_elements)
    /\ UNCHANGED << session, stop_calls, step, interactive_elements,
                    manifest, actuator_log, dispatched, all_elements, drawn,
                    filter_runs, resolution >>

\* One primitive that either returns after its event or raises before it.
Primitive(event, source) ==
    { [trace |-> << Event(event, 0, 0) >>, error |-> "none"],
      [trace |-> <<>>, error |-> source] }

\* click_element's outcomes with the error they leave: "none", or "click"
\* for the ValueError of browser_manager.py:390.
ClickOutcomes(text_content, selector, has_coords, coords) ==
    { [trace |-> o.trace, error |-> IF o.raised THEN "click" ELSE "none"] :
        o \in ClickElement(text_content, selector, has_coords, coords) }

\* Run the outcomes in second after every outcome in first that returned.
Then(first, second) ==
    { o \in first : o.error # "none" }
    \cup { [trace |-> o.trace \o p.trace, error |-> p.error] :
             o \in { q \in first : q.error = "none" }, p \in second }

\* capturer.py 92-175: the click branch.
ClickBranch(d, elements) ==
    LET r == ResolveClick(d, elements)
    IN  IF r.raised
        THEN { [trace |-> <<>>, error |-> "resolve"] }
        ELSE Then(ClickOutcomes(DictGet(d, "text", PyNone),
                                DictGet(d, "selector", PyNone),
                                r.has_coords, r.coords),
                  Primitive("screenshot", "screenshot"))

\* type_text (browser_manager.py 392-433).  With a selector the locator is
\* looked up, then the text is filled in, or (fill raised) typed after a
\* click and Control+a, or (the locator raised) typed blind; without one it
\* is typed blind.  Only the blind keyboard.type of lines 429 and 433 can
\* raise out of type_text.
TypeText(selector) ==
    IF Truthy(selector)
    THEN { [trace |-> << Event("locator", 0, 0), Event("locator_fill", 0, 0) >>,
            error |-> "none"],
           [trace |-> << Event("locator", 0, 0), Event("locator_click", 0, 0),
                         Event("key_press", 0, 0),
                         Event("keyboard_type", 0, 0) >>,
            error |-> "none"],
           [trace |-> << Event("locator", 0, 0), Event("keyboard_type", 0, 0) >>,
            error |-> "none"],
           [trace |-> << Event("locator", 0, 0) >>, error |-> "type"] }
    ELSE Primitive("keyboard_type", "type")

\* capturer.py 176-207: the type branch.
TypeBranch(d, elements) ==
    LET idx == DictGet(d, "element_index", PyNone)
        typing ==
            IF idx.t = "none"
            THEN Primitive("keyboard_type", "type")
            ELSE IF ValidIndex(idx, elements)
            THEN Then(ClickOutcomes(PyNone, PyNone, TRUE,
                                    elements[idx.n + 1].rect),
                      Primitive("keyboard_type", "type"))
            ELSE TypeText(DictGet(d, "selector", PyNone))
    IN  Then(typing, Primitive("screenshot", "screenshot"))

\* browser_manager.py 435-439: press_key raises in keyboard.press or, the
\* key pressed, in wait_for_load_state("networkidle").
PressOutcomes ==
    Primitive("key_press", "press")
    \cup { [trace |-> << Event("key_press", 0, 0) >>, error |-> "press"] }

\* capturer.py 92-216: every way the action of decision dec can go.
ActOutcomes(dec, elements) ==
    LET kind == dec.action.s
        d    == dec.params.d
    IN  CASE kind = "click" -> ClickBranch(d, elements)
          [] kind = "type" -> TypeBranch(d, elements)
          [] kind = "press" -> PressOutcomes
          [] kind = "scroll" -> Primitive("wheel", "scroll")
          [] OTHER -> Primitive("goto", "navigate")

\* The element lookup of decision dec indexing the scan, not the list given.
ActResolutionOnScan(dec, elements) ==
    CASE dec.action.s = "click" -> ResolveClick(dec.params.d, all_elements)
      [] dec.action.s = "type" -> ResolveType(dec.params.d, all_elements)
      [] OTHER -> NoResolution

\* capturer.py 93-158, 177-199: the element lookup of decision dec.
ActResolution(dec, elements) ==
    CASE dec.action.s = "click" -> ResolveClick(dec.params.d, elements)
      [] dec.action.s = "type" -> ResolveType(dec.params.d, elements)
      [] OTHER -> NoResolution

\* capturer.py 92-221: the action goes to the Actuator; when no call raises
\* the step ends with the settle delay.  An action that can only raise (a
\* click with no coordinates, selector or text) raises on the routine.
Act ==
    /\ pc = "act"
    /\ dispatched' = dispatched \cup {step}
    /\ resolution' = ActResolution(decision, interactive_elements)
    /\ LET outs   == ActOutcomes(decision, interactive_elements)
           forced == \A q \in outs : q.error # "none"
       IN  \/ \E o \in outs :
                /\ o.error = "none"
                /\ actuator_log' = o.trace
                /\ pc' = "loop"
                /\ error' = error
                /\ Routine
           \/ /\ forced \/ varied < MaxVaried
              /\ varied' = IF forced THEN varied ELSE varied + 1
              /\ \E o \in outs :
                    /\ o.error # "none"
                    /\ actuator_log' = o.trace
                    /\ pc' = "except"
                    /\ error' = o.error
    /\ UNCHANGED << session, stop_calls, step, consecutive_same_action,
                    last_action_key, interactive_elements, decision,
                    oracle_error, history, captured_states, manifest,
                    outcome, all_elements, drawn,
                    oracle_elements, filter_runs >>

\* capturer.py 223-224: the except clause prints the error and falls into
\* the finally clause.
Except ==
    /\ pc = "except"
    /\ pc' = "finally"
    /\ outcome' = "error"
    /\ UNCHANGED << session, stop_calls, step, consecutive_same_action,
                    last_action_key, interactive_elements, decision,
                    oracle_error, history, captured_states, manifest,
                    error, actuator_log, dispatched, varied, all_elements,
                    drawn, resolution,
                    oracle_elements, filter_runs >>

\* The manifest of a run that appends the StepRecord only after the loop
\* guard and the finish / fail tests: the step that left the loop is missing.
ManifestWithoutLastStep ==
    [task |-> Task,
     states |-> IF outcome \in {"stalled", "finished", "failed"}
                THEN SubSeq(captured_states, 1, Len(captured_states) - 1)
                ELSE captured_states]

\* capturer.py 227-228: the document written to manifest.json.
ManifestDocument == [task |-> Task, states |-> captured_states]

\* capturer.py 225-230: the finally clause writes the manifest and then
\* stops the browser.  The write may raise (then stop is not reached), and
\* stop itself may raise.
Finally ==
    /\ pc = "finally"
    /\ \/ /\ manifest' = Append(manifest, ManifestDocument)
          /\ stop_calls' = stop_calls + 1
          /\ session' = "closed"
          /\ pc' = "done"
          /\ error' = error
          /\ Routine
       \/ /\ manifest' = Append(manifest, ManifestDocument)
          /\ stop_calls' = stop_calls + 1
          /\ session' = "partial"
          /\ pc' = "raised"
          /\ error' = "stop"
          /\ Varies
       \/ /\ manifest' = manifest
          /\ stop_calls' = stop_calls
          /\ session' = session
          /\ pc' = "raised"
          /\ error' = "manifest"
          /\ Varies
    /\ UNCHANGED << step, consecutive_same_action, last_action_key,
                    interactive_elements, decision, oracle_error, history,
                    captured_states, outcome, actuator_log, dispatched,
                    all_elements, drawn, resolution,
                    oracle_elements, filter_runs >>

Next ==
    \/ Start
    \/ Navigate
    \/ LoopHead
    \/ Observe
    \/ Decide
    \/ Act
    \/ Except
    \/ Finally

Spec == Init /\ [][Next]_vars

\* run_task is one coroutine that the event loop runs until it returns or
\* raises: every awaited call returns or fails, so a step that can be taken
\* is taken.  Observe and Act can be taken exactly at their positions and
\* leave them, so weak fairness of the two is written as: the run is not at
\* that position for ever.
FairSpec ==
    /\ Spec
    /\ WF_vars(Start)
    /\ WF_vars(Navigate)
    /\ WF_vars(LoopHead)
    /\ []<>(pc # "observe")
    /\ WF_vars(Decide)
    /\ []<>(pc # "act")
    /\ WF_vars(Except)
    /\ WF_vars(Finally)

\* ------------------------------------------------------------------------
\* capture_state_with_overlays on its own, for every scan of up to MaxRaw of
\* the elements below
\* ------------------------------------------------------------------------

\* Elements as get_interactive_elements reports them (wider and higher than
\* 5px): a button, a span that nearly fills it, the row around both, a text
\* field and a role=textbox div on the button's box, a board and a textarea
\* above the area ceiling, a panel exactly at it, a text field scrolled out
\* of view, two links whose IoU is exactly 0.9, and a link that is a near
\* duplicate of the span but not of the button.
RawCandidates ==
    { Element("button", "", "Save", "", Rect(10, 10, 40, 20)),
      Element("span", "button", "Save", "", Rect(10, 10, 38, 19)),
      Element("li", "", "Save", "", Rect(0, 0, 200, 40)),
      Element("input", "", "", "", Rect(10, 10, 40, 20)),
      Element("div", "textbox", "", "", Rect(10, 10, 40, 20)),
      Element("div", "button", "Board", "", Rect(0, 0, 520, 500)),
      Element("textarea", "", "", "", Rect(0, 0, 520, 500)),
      Element("div", "tab", "Panel", "", Rect(600, 0, 500, 500)),
      Element("input", "", "", "", Rect(10, -30, 120, 24)),
      Element("a", "", "Docs", "", Rect(300, 300, 10, 10)),
      Element("a", "", "Docs", "", Rect(300, 300, 10, 9)),
      Element("a", "", "Save", "", Rect(10, 10, 36, 19)) }

\* The scans of at most MaxRaw of these elements, in any order, repeats
\* included.
RawLists ==
    { Scanned(els) : els \in UNION { [1..n -> RawCandidates] : n \in 0..MaxRaw } }

\* A session on a page whose scan is one of RawLists, about to capture it.
FilterInit ==
    /\ pc = "capture"
    /\ all_elements \in RawLists
    /\ session = "open"
    /\ stop_calls = 0
    /\ step = 1
    /\ consecutive_same_action = 0
    /\ last_action_key = PyNone
    /\ interactive_elements = <<>>
    /\ decision = NoDecision
    /\ oracle_error = ""
    /\ history = <<>>
    /\ captured_states = <<>>
    /\ manifest = <<>>
    /\ outcome = "running"
    /\ error = "none"
    /\ actuator_log = <<>>
    /\ dispatched = {}
    /\ varied = 0
    /\ drawn = <<>>
    /\ oracle_elements = <<>>
    /\ filter_runs = 0
    /\ resolution = NoResolution

\* browser_manager.py 164-296 for the scan all_elements: filter, re-index,
\* draw; and the same again in a later call that scans the same elements.
CaptureState ==
    /\ pc \in {"capture", "captured"}
    /\ filter_runs < MaxCaptures
    /\ interactive_elements' = OverlayFilter(all_elements)
    /\ drawn' = DrawOverlays(OverlayFilter(all_elements))
    /\ filter_runs' = filter_runs + 1
    /\ pc' = "captured"
    /\ UNCHANGED << session, stop_calls, step, consecutive_same_action,
                    last_action_key, decision, oracle_error, history,
                    captured_states, manifest, outcome, error, actuator_log,
                    dispatched, varied, all_elements, resolution,
                    oracle_elements >>

FilterNext == CaptureState

FilterSpec == FilterInit /\ [][FilterNext]_vars

\* ------------------------------------------------------------------------
\* The action of one step on its own, for every click and type proposal
\* below on every page below
\* ------------------------------------------------------------------------

\* A page whose only element matching "Create" is the largest one, label 5,
\* while label 2 reads "Crate"; no element has an empty text.
ScenarioScan ==
    Scanned(
    << Element("li", "menuitem", "Create", "", Rect(10, 200, 100, 30)),
       Element("a", "", "Home", "", Rect(10, 10, 30, 20)),
       Element("a", "", "Docs", "", Rect(60, 10, 35, 20)),
       Element("a", "", "Crate", "", Rect(10, 50, 40, 20)),
       Element("input", "", "Search", "", Rect(10, 100, 120, 10)),
       Element("button", "", "Settings", "", Rect(10, 150, 70, 20)) >>)

\* A page around the 500px threshold: a link and an icon button below it, a
\* link exactly at it, a button and a menu entry of the same area above it,
\* and an empty text field.
BoundaryScan ==
    Scanned(
    << Element("a", "", "Create", "", Rect(10, 10, 20, 20)),
       Element("button", "", "+", "Create task", Rect(50, 10, 21, 21)),
       Element("a", "", "Create task", "", Rect(10, 50, 25, 20)),
       Element("button", "", "Create task", "", Rect(10, 100, 30, 20)),
       Element("li", "menuitem", "Create task", "", Rect(10, 150, 20, 30)),
       Element("input", "", "", "", Rect(10, 200, 120, 10)) >>)

\* The scans of the pages the action is tried on.
ResolverScans == { <<>>, ScannedPage, ScenarioScan, BoundaryScan }

\* The values of params["text"]: strings, and a JSON number.
ProposalTexts ==
    { PyStr(""), PyStr("+"), PyStr("Cre"), PyStr("Crea"), PyStr("Create"),
      PyStr("Create task"), PyStr("Create issue"), PyStr("Delete"),
      PyInt(2024) }

\* The values of params["element_index"]: null, a JSON string, and the
\* integers from -1 to MaxIndex.
ProposalIndexes ==
    { PyNone, PyStr("2") } \cup { PyInt(n) : n \in (-1)..MaxIndex }

\* The params dicts of the click and type proposals tried: each of text,
\* element_index and selector is present or absent.
ProposalParams ==
    { t @@ i @@ sel :
        t \in { <<>> } \cup { [text |-> v] : v \in ProposalTexts },
        i \in { <<>> } \cup { [element_index |-> v] : v \in ProposalIndexes },
        sel \in { <<>>, [selector |-> PyStr("#create")] } }

\* run_task at the point where the action of step 1 is dispatched
\* (capturer.py:92): the page was captured, the proposal recorded and seen by
\* the loop guard.
ResolverInit ==
    /\ pc = "act"
    /\ \E scan \in ResolverScans :
          /\ all_elements = scan
          /\ interactive_elements = OverlayFilter(scan)
          /\ drawn = DrawOverlays(OverlayFilter(scan))
          /\ oracle_elements = OracleElements(OverlayFilter(scan))
    /\ filter_runs = 1
    /\ \E kind \in {"click", "type"}, d \in ProposalParams :
          /\ decision = Proposal(kind, d)
          /\ history = << HistoryEntry(1, Proposal(kind, d)) >>
          /\ captured_states = << StepRecord(1, Proposal(kind, d)) >>
          /\ last_action_key = PyStr(ActionKey(PyStr(kind), d))
    /\ session = "open"
    /\ stop_calls = 0
    /\ step = 1
    /\ consecutive_same_action = 1
    /\ oracle_error = ""
    /\ manifest = <<>>
    /\ outcome = "running"
    /\ error = "none"
    /\ actuator_log = <<>>
    /\ dispatched = {}
    /\ varied = 0
    /\ resolution = NoResolution

ResolverNext == Act

ResolverSpec == ResolverInit /\ [][ResolverNext]_vars

\* ------------------------------------------------------------------------
\* Properties
\* ------------------------------------------------------------------------

\* The run has left run_task's loop for good.
Ended == pc \in {"finally", "done", "raised"}

\* The loop-guard key of the i-th history entry.
StepKey(i) == ActionKey(history[i].action, history[i].params.d)

\* The number of consecutive steps, ending at step i, with the key of step i.
RECURSIVE RunLength(_)
RunLength(i) ==
    IF i > 1 /\ StepKey(i) = StepKey(i - 1) THEN RunLength(i - 1) + 1 ELSE 1

\* C1: the loop guard's counter is the number of consecutive steps, ending
\* at the current one, that have the current step's derived key; the stored
\* key is the current step's key (so a differing key resets the counter to 1
\* and is stored); the run is stalled exactly when that number is 3, and no
\* earlier step ever saw 3 identical keys in a row.
C1_LoopGuardStallsOnThird ==
    LET n == Len(history)
    IN  (n > 0 /\ history[n].params.t = "dict") =>
            /\ consecutive_same_action = RunLength(n)
            /\ last_action_key = PyStr(StepKey(n))
            /\ (outcome = "stalled") <=> (RunLength(n) = 3)
            /\ \A i \in 3..(n - 1) :
                  ~(/\ StepKey(i) = StepKey(i - 1)
                    /\ StepKey(i - 1) = StepKey(i - 2))
            /\ RunLength(n) <= 3

\* A run stalled at step 5: clicks at 1-2, a reset at step 3, then three
\* identical keys at steps 3-5.
C1_StalledAfterReset ==
    /\ outcome = "stalled"
    /\ Len(history) = 5
    /\ consecutive_same_action = 3
    /\ StepKey(2) # StepKey(3)

\* The call of the Actuator that raised during a step's action.
ActuatorErrors == {"click", "type", "press", "scroll", "navigate"}

\* C2: an Actuator primitive that raises during a step's action does not end
\* the run: the Orchestrator is still in its loop afterwards.
C2_ActuatorFailureIsNonFatal ==
    (error \in ActuatorErrors /\ step \in dispatched) =>
        pc \in {"loop", "observe", "decide", "act"}

\* C3: every run that has ended, on whatever path (the output directory
\* could be created and the manifest file could be written), has written the
\* manifest exactly once.
C3_ManifestOnEveryPath ==
    (pc \in {"done", "raised"} /\ error \notin {"makedirs", "manifest"}) =>
        Len(manifest) = 1

\* C4: once the session acquisition was attempted, every run that has ended
\* has called BrowserManager.stop.
C4_SessionReleasedOnEveryPath ==
    (pc \in {"done", "raised"} /\ error # "makedirs") => stop_calls >= 1

\* C5: a scan that raises leaves the step with an empty element set and the
\* run goes on to consult the Oracle.
C5_ScanFailureDegrades ==
    error = "scan" =>
        /\ pc \in {"decide", "act", "loop", "observe"}
        /\ (pc = "decide" => interactive_elements = <<>>)

\* The action kinds of an ActionProposal.
ProposalActions ==
    {"click", "type", "press", "scroll", "navigate", "finish", "fail"}

\* The payload d lacks a valid action or has params that are not a dict.
Malformed(d) ==
    \/ "action" \notin DOMAIN d
    \/ d.action.t # "str"
    \/ d.action.s \notin ProposalActions
    \/ ("params" \in DOMAIN d /\ d.params.t # "dict")

\* C6: when the Oracle call failed or returned a malformed payload, the step
\* is recorded as a fail and the run ends in Failed.
C6_MalformedDecisionIsFail ==
    (decision # NoDecision /\ (oracle_error # "" \/ Malformed(decision))) =>
        /\ captured_states[Len(captured_states)].action_taken = PyStr("fail")
        /\ outcome = "failed"
        /\ Ended

\* The decision d is a proposal of the given kind with a params dict.
IsProposal(d, kind) ==
    /\ "action" \in DOMAIN d
    /\ d.action = PyStr(kind)
    /\ ("params" \in DOMAIN d => d.params.t = "dict")

\* The current step's proposal is recorded as the last StepRecord, nothing
\* of it reached the Actuator and the loop has been left.
RecordedAndNotDispatched ==
    LET n == Len(captured_states)
    IN  /\ Ended
        /\ n = step
        /\ captured_states[n].step = step
        /\ captured_states[n].action_taken = decision.action
        /\ step \notin dispatched
        /\ actuator_log = <<>>

\* C7: after a finish proposal the run is Finished, after a fail proposal it
\* is Failed and the last StepRecord's params carry the Oracle's reason; in
\* both cases the proposal is recorded, not dispatched, and no step follows.
C7_FinishAndFailEndTheRun ==
    /\ IsProposal(decision, "finish") =>
          outcome = "finished" /\ RecordedAndNotDispatched
    /\ IsProposal(decision, "fail") =>
          /\ outcome = "failed"
          /\ RecordedAndNotDispatched
          /\ captured_states[Len(captured_states)].action_params
                = decision.params

\* A run that failed at step 3 with the Oracle's reason, after two
\* dispatched actions, and wrote its manifest.
C7_FailedWithReason ==
    /\ pc = "done"
    /\ outcome = "failed"
    /\ step = 3
    /\ dispatched = {1, 2}
    /\ oracle_error = ""
    /\ Len(manifest) = 1
    /\ manifest[1].states[3].action_params
          = PyDict([reason |-> PyStr("blocked")])

\* C8: a run never has more than 20 steps or 20 StepRecords; a step that is
\* under way is one of steps 1..20; a run that left the loop through the
\* ceiling has exactly 20 StepRecords, one per step; and after step 20 the
\* loop does nothing but leave through the ceiling.
C8_StepCeiling ==
    /\ [](/\ step <= 20
          /\ Len(captured_states) <= 20
          /\ (pc \in {"observe", "decide", "act"} => step \in 1..20)
          /\ (outcome = "ceiling" =>
                /\ step = 20
                /\ Len(captured_states) = 20
                /\ \A i \in 1..20 : captured_states[i].step = i))
    /\ [][(pc = "loop" /\ step = 20) =>
            (pc' = "finally" /\ outcome' = "ceiling" /\ step' = 20)]_vars

\* A run that hit the ceiling and wrote a manifest of 20 StepRecords.
C8_CeilingReached ==
    /\ pc = "done"
    /\ outcome = "ceiling"
    /\ Len(manifest) = 1
    /\ Len(manifest[1].states) = 20

\* The loop-guard key of StepRecord r.
RecordKey(r) ==
    ActionKey(r.action_taken,
              IF r.action_params.t = "dict" THEN r.action_params.d ELSE <<>>)

\* C9: when the loop guard has stalled the run at step n, n >= 3, the last
\* three StepRecords carry the same key, there are exactly n StepRecords,
\* the n-th being the stalled step's, and a manifest that was written holds
\* exactly these n.
C9_StalledManifestHoldsAllSteps ==
    outcome = "stalled" =>
        /\ step >= 3
        /\ Len(captured_states) = step
        /\ captured_states[step].step = step
        /\ RecordKey(captured_states[step]) = RecordKey(captured_states[step - 1])
        /\ RecordKey(captured_states[step]) = RecordKey(captured_states[step - 2])
        /\ \A k \in 1..Len(manifest) :
              /\ Len(manifest[k].states) = step
              /\ manifest[k].states = captured_states

\* Three clicks on label 4 with empty text: stalled on the 3rd, and the
\* manifest has 3 entries.
C9_ThreeClicksThreeEntries ==
    /\ pc = "done"
    /\ outcome = "stalled"
    /\ Len(manifest) = 1
    /\ Len(manifest[1].states) = 3
    /\ \A i \in 1..3 :
          /\ manifest[1].states[i].action_taken = PyStr("click")
          /\ manifest[1].states[i].action_params
                = PyDict([text |-> PyStr(""), element_index |-> PyInt(4)])

\* C10: the manifest of a run that ended by a loop stall or by the step
\* ceiling carries a Stuck status.
C10_StuckIsRecorded ==
    \A k \in 1..Len(manifest) :
        outcome \in {"stalled", "ceiling"} =>
            /\ "status" \in DOMAIN manifest[k]
            /\ manifest[k].status = "Stuck"

\* ------------------------------------------------------------------------
\* Properties of the overlay filter (FilterSpec)
\* ------------------------------------------------------------------------

\* The pixel columns and rows a box covers.
Columns(r) == r.x .. (r.x + r.width - 1)

Rows(r) == r.y .. (r.y + r.height - 1)

\* The number of pixels of a box, and of the part two boxes share.
BoxArea(r) == Cardinality(Columns(r)) * Cardinality(Rows(r))

SharedArea(r1, r2) ==
    Cardinality(Columns(r1) \cap Columns(r2))
        * Cardinality(Rows(r1) \cap Rows(r2))

\* A text-entry control by tag or role.
InputLike(el) ==
    \/ el.tagName = "input"
    \/ el.tagName = "textarea"
    \/ el.role = "textbox"
    \/ el.role = "searchbox"

\* The pairs of distinct positions of the filter's output that both hold
\* elements that are not input-like.
NonInputPairs ==
    { pr \in (1..Len(interactive_elements)) \X (1..Len(interactive_elements)) :
        /\ pr[1] # pr[2]
        /\ ~InputLike(interactive_elements[pr[1]])
        /\ ~InputLike(interactive_elements[pr[2]]) }

\* C11: of any two distinct non-input elements of the filter's output, at
\* most 95% of the one's area lies inside the other, in both orders; a
\* control and a control fully inside it are never both in the output.
C11_ContainmentBounded ==
    pc = "captured" =>
        \A pr \in NonInputPairs :
            LET a == interactive_elements[pr[1]].rect
                b == interactive_elements[pr[2]].rect
            IN  SharedArea(a, b) * 100 <= BoxArea(a) * 95

\* C12: any two distinct non-input elements of the filter's output have an
\* intersection of at most 0.9 of their union.
C12_IouBounded ==
    pc = "captured" =>
        \A pr \in NonInputPairs :
            LET a == interactive_elements[pr[1]].rect
                b == interactive_elements[pr[2]].rect
                shared == SharedArea(a, b)
            IN  shared * 10 <= (BoxArea(a) + BoxArea(b) - shared) * 9

\* The scan of "Save" at (10,10,40,20) and its near-duplicate at
\* (10,10,38,19) leaves exactly one element.
C12_NearDuplicateLeavesOne ==
    /\ pc = "captured"
    /\ all_elements =
          Scanned(<< Element("button", "", "Save", "", Rect(10, 10, 40, 20)),
                     Element("span", "button", "Save", "", Rect(10, 10, 38, 19)) >>)
    /\ Len(interactive_elements) = 1

\* An element without its index field.
SansIndex(el) == Element(el.tagName, el.role, el.text, el.ariaLabel, el.rect)

\* How often the element e (without index) occurs in a list.
Occurrences(list, e) ==
    Cardinality({ p \in 1..Len(list) : SansIndex(list[p]) = e })

\* The scanned element at p is in the filter's output, as often as it was
\* scanned.
Survives(p) ==
    LET e == SansIndex(all_elements[p])
    IN  /\ Occurrences(interactive_elements, e) = Occurrences(all_elements, e)
        /\ \E q \in 1..Len(interactive_elements) :
              /\ SansIndex(interactive_elements[q]) = e
              /\ InputLike(interactive_elements[q])

\* C13, as stated: every input-like element of the scan is in the filter's
\* output, whatever its overlap with other elements, its size and its place.
C13_EveryInputSurvives ==
    pc = "captured" =>
        \A p \in 1..Len(all_elements) :
            InputLike(all_elements[p]) => Survives(p)

\* C13, amended: every input-like element of the scan that lies at
\* non-negative x and y and is wider and higher than 5px is in the filter's
\* output, whatever its overlap with other elements and however large its
\* area.
C13_EveryVisibleInputSurvives ==
    pc = "captured" =>
        \A p \in 1..Len(all_elements) :
            LET r == all_elements[p].rect
            IN  (/\ InputLike(all_elements[p])
                 /\ r.x >= 0 /\ r.y >= 0 /\ r.width > 5 /\ r.height > 5)
                    => Survives(p)

\* A button, a role=textbox div on the same box and a textarea above the
\* area ceiling were scanned: all three are in the output.
C13_OverlappingAndLargeInputsKept ==
    /\ pc = "captured"
    /\ all_elements =
          Scanned(<< Element("button", "", "Save", "", Rect(10, 10, 40, 20)),
                     Element("div", "textbox", "", "", Rect(10, 10, 40, 20)),
                     Element("textarea", "", "", "", Rect(0, 0, 520, 500)) >>)
    /\ Len(interactive_elements) = 3

C15_IndexPositionLabelCoincide ==
    pc = "captured" =>
        LET n == Len(interactive_elements)
        IN  /\ Len(drawn) = n
            /\ { interactive_elements[k].index : k \in 1..n } = 0..(n - 1)
            /\ \A k \in 1..n :
                  /\ interactive_elements[k].index = k - 1
                  /\ drawn[k].tag_text = ToString(interactive_elements[k].index)
                  /\ drawn[k].rect = interactive_elements[k].rect

\* A row scanned first (scan index 0) comes out last: index 2, tag "2".
C15_RowRelabelled ==
    /\ pc = "captured"
    /\ Len(all_elements) = 3
    /\ all_elements[1].tagName = "li"
    /\ all_elements[1].index = 0
    /\ Len(interactive_elements) = 3
    /\ interactive_elements[3].tagName = "li"
    /\ interactive_elements[3].index = 2
    /\ drawn[3].tag_text = "2"

\* ------------------------------------------------------------------------
\* Properties of the action resolver (ResolverSpec)
\* ------------------------------------------------------------------------

\* part occurs in whole as a run of consecutive characters.
IsSubstring(part, whole) ==
    \E i \in 0..Len(whole) :
        \E j \in i..Len(whole) : SubSeq(whole, i + 1, j) = part

\* Case-insensitive substring match in either direction.
SubstringMatch(expected, text) ==
    \/ IsSubstring(Lower(expected), Lower(text))
    \/ IsSubstring(Lower(text), Lower(expected))

\* The current step's action is a click that was handed to the resolver.
ClickResolved ==
    /\ pc \in {"loop", "except"}
    /\ step \in dispatched
    /\ decision.action = PyStr("click")

\* The expected text and the index of the current proposal.
ExpectedText == DictGet(decision.params.d, "text", PyNone)

ProposedIndex == DictGet(decision.params.d, "element_index", PyNone)

\* The proposal names an element of the list by an integer index.
IndexInBounds ==
    /\ ProposedIndex.t = "int"
    /\ ProposedIndex.n \in 0..(Len(interactive_elements) - 1)

\* Label j is the smallest of the labels in S by area, the lowest label
\* among those of equal area.
SmallestOf(j, S) ==
    /\ j \in S
    /\ \A k \in S :
          LET aj == BoxArea(interactive_elements[j + 1].rect)
              ak == BoxArea(interactive_elements[k + 1].rect)
          IN  aj < ak \/ (aj = ak /\ j <= k)

\* The labels whose text substring-matches the expected text.
TextMatches ==
    { j \in 0..(Len(interactive_elements) - 1) :
        SubstringMatch(ExpectedText.s, interactive_elements[j + 1].text) }

\* The small-target rule applies to label v and the expected text.
SmallTarget(v) ==
    /\ BoxArea(interactive_elements[v + 1].rect) < 500
    /\ ExpectedText.t = "str"
    /\ Len(ExpectedText.s) > 3

\* C16: a click with a valid index and an expected text that does not
\* substring-match the indexed element's text settles on the matching
\* element of smallest area (lowest index among equals), or on the indexed
\* element when nothing matches; unless the small-target rule applies to
\* it, that element's box is the one clicked.
C16_MismatchPicksSmallestMatch ==
    (/\ ClickResolved
     /\ IndexInBounds
     /\ ExpectedText.t = "str" /\ ExpectedText.s # ""
     /\ ~SubstringMatch(ExpectedText.s,
                        interactive_elements[ProposedIndex.n + 1].text))
        => /\ ~resolution.raised
           /\ IF TextMatches = {}
              THEN resolution.verified = ProposedIndex.n
              ELSE SmallestOf(resolution.verified, TextMatches)
           /\ ~SmallTarget(resolution.verified) =>
                 /\ resolution.idx = resolution.verified
                 /\ resolution.has_coords
                 /\ resolution.coords
                       = interactive_elements[resolution.verified + 1].rect

\* Label 2 reads "Crate", "Create" is expected and label 5 is the only
\* match: the click goes to the centre of label 5.
C16_CrateBecomesCreate ==
    /\ pc = "loop"
    /\ all_elements = ScenarioScan
    /\ interactive_elements[3].text = "Crate"
    /\ interactive_elements[6].text = "Create"
    /\ decision = Proposal("click", [text |-> PyStr("Create"),
                                     element_index |-> PyInt(2)])
    /\ resolution.idx = 5
    /\ Len(actuator_log) >= 3
    /\ actuator_log[3] = Event("mouse_click", 120, 430)

\* The labels above 500px whose text plus aria-label substring-matches the
\* expected text.
LargerMatches ==
    { j \in 0..(Len(interactive_elements) - 1) :
        /\ SubstringMatch(ExpectedText.s,
                          Lower(interactive_elements[j + 1].text) \o " "
                              \o Lower(interactive_elements[j + 1].ariaLabel))
        /\ BoxArea(interactive_elements[j + 1].rect) > 500 }

\* C17: the element a click is executed on is the one the text verification
\* settled on, except when that element is below 500px and the expected
\* text is longer than 3 characters: then it is the smallest element above
\* 500px whose text plus aria-label matches, if there is one.
C17_SmallTargetRule ==
    (ClickResolved /\ resolution.has_coords) =>
        /\ IF SmallTarget(resolution.verified) /\ LargerMatches # {}
           THEN SmallestOf(resolution.idx, LargerMatches)
           ELSE resolution.idx = resolution.verified
        /\ resolution.coords = interactive_elements[resolution.idx + 1].rect

\* "Create task" is expected at label 0, a 400px link reading "Create": the
\* click goes to label 3, the first of the two 600px matches, not to the
\* 500px link of label 2.
C17_SmallLinkBecomesButton ==
    /\ pc = "loop"
    /\ all_elements = BoundaryScan
    /\ decision = Proposal("click", [text |-> PyStr("Create task"),
                                     element_index |-> PyInt(0)])
    /\ resolution.verified = 0
    /\ resolution.idx = 3
    /\ BoxArea(interactive_elements[3].rect) = 500
    /\ BoxArea(interactive_elements[4].rect) = BoxArea(interactive_elements[5].rect)
    /\ Len(actuator_log) >= 3
    /\ actuator_log[3] = Event("mouse_click", 50, 220)

\* The current step's action is a click or a type that went to the Actuator
\* and returned or raised.
ReferenceActed ==
    /\ pc \in {"loop", "except"}
    /\ step \in dispatched
    /\ decision.action \in {PyStr("click"), PyStr("type")}

\* The proposal carries a selector.
SelectorSupplied == Truthy(DictGet(decision.params.d, "selector", PyNone))

\* An event of a locator built from the selector.
LocatorEvents == {"locator", "locator_cursor", "locator_click", "locator_fill"}

\* C18: a click or type whose index is absent or out of bounds is executed
\* through the selector when one is supplied, and otherwise is passed
\* through as blind input: the Actuator call does not reject it.
C18_UnusableIndexFallsBack ==
    (ReferenceActed /\ ~IndexInBounds /\ ~resolution.raised) =>
        /\ (SelectorSupplied /\ error = "none") =>
              \E k \in 1..Len(actuator_log) : actuator_log[k].e \in LocatorEvents
        /\ ~SelectorSupplied => error # "click"

\* C19: the element lookup of a click or type never raises; and a type
\* proposal without an index looks up no element, clicks nothing, and sends
\* its text as keyboard input.
C19_ResolverNeverRaises ==
    /\ ~resolution.raised
    /\ error # "resolve"
    /\ (/\ ReferenceActed
        /\ decision.action = PyStr("type")
        /\ ProposedIndex = PyNone) =>
          /\ ~resolution.has_coords
          /\ \A k \in 1..Len(actuator_log) :
                actuator_log[k].e \in {"keyboard_type", "screenshot"}
          /\ error = "none" => actuator_log[1].e = "keyboard_type"

\* C20: when the Oracle is consulted, no entry of the history handed to it
\* carries an element index.
C20_NoIndexInHistory ==
    pc = "decide" =>
        \A i \in 1..Len(history) :
            history[i].params.t = "dict" =>
                "element_index" \notin DOMAIN history[i].params.d

\* ------------------------------------------------------------------------
\* Properties of one step's element list (Spec)
\* ------------------------------------------------------------------------

\* The step in progress has had its decision.
StepDecided == step >= 1 /\ Len(history) = step

\* C21 (state part): the filter has run once for every step that got past
\* its capture; the boxes and tags on the screenshot are those of the list
\* the step holds; the Oracle was sent a prefix of that list; the box the
\* resolver hands on is the box of that list, and of the drawing, at the
\* position it settled on.
C21_OneListPerStepState ==
    LET n == Len(interactive_elements)
    IN  /\ filter_runs \in { step - 1, step } \cap Nat
        /\ pc \in {"decide", "act"} => filter_runs = step
        /\ Len(drawn) = n
        /\ \A k \in 1..n :
              /\ drawn[k].rect = interactive_elements[k].rect
              /\ drawn[k].tag_text = ToString(k - 1)
        /\ StepDecided =>
              /\ Len(oracle_elements) <= n
              /\ Len(oracle_elements) = n \/ Len(oracle_elements) = 500
              /\ \A k \in 1..Len(oracle_elements) :
                    oracle_elements[k] = interactive_elements[k]
        /\ resolution.has_coords =>
              /\ resolution.idx \in 0..(n - 1)
              /\ resolution.coords = interactive_elements[resolution.idx + 1].rect
              /\ resolution.coords = drawn[resolution.idx + 1].rect
              /\ drawn[resolution.idx + 1].tag_text = ToString(resolution.idx)

\* C21 (step part): the list, the drawing and the run count change only in
\* the capture that opens a step, and the filter runs once there.
C21_OneListPerStepAction ==
    \/ /\ interactive_elements' = interactive_elements
       /\ drawn' = drawn
       /\ filter_runs' = filter_runs
    \/ /\ pc = "observe" /\ pc' = "decide"
       /\ filter_runs' = filter_runs + 1

\* C21: within one step the filter runs exactly once and the same unmodified
\* filtered list is the one drawn on the annotated screenshot, the one sent
\* to the Oracle (as a prefix) and the one the resolver indexes into; it is
\* neither re-filtered, reordered nor re-indexed between rendering and
\* resolution.
C21_OneListPerStep ==
    []C21_OneListPerStepState /\ [][C21_OneListPerStepAction]_vars

\* Step 1 ended with a coordinate click on the box drawn with tag 4, out of
\* the six boxes drawn and sent to the Oracle.
C21_ClickedTheDrawnBox ==
    /\ pc = "loop"
    /\ step = 1
    /\ filter_runs = 1
    /\ Len(interactive_elements) = 6
    /\ oracle_elements = interactive_elements
    /\ resolution.has_coords
    /\ resolution.idx = 4
    /\ drawn[5].tag_text = "4"
    /\ drawn[5].rect = resolution.coords
    /\ Len(actuator_log) >= 3
    /\ actuator_log[3].e = "mouse_click"

\* ------------------------------------------------------------------------
\* Order and drop reasons of the overlay filter (FilterSpec)
\* ------------------------------------------------------------------------

\* The elements of a list with a pixels of area, without their index fields,
\* in list order.
AreaClass(list, a) ==
    LET same == SelectSeq(list, LAMBDA e : BoxArea(e.rect) = a)
    IN  [k \in 1..Len(same) |-> SansIndex(same[k])]

\* The sequence a is b with some of its members left out.
RECURSIVE IsSubsequence(_, _)
IsSubsequence(a, b) ==
    IF a = <<>> THEN TRUE
    ELSE IF b = <<>> THEN FALSE
    ELSE IF Head(a) = Head(b) THEN IsSubsequence(Tail(a), Tail(b))
    ELSE IsSubsequence(a, Tail(b))

\* The filter's output is in non-decreasing order of area, and its elements
\* of one area stand in the order the scan had them in.
C22_AreaOrderStable ==
    pc = "captured" =>
        LET n == Len(interactive_elements)
        IN  /\ \A i \in 1..n : \A j \in i..n :
                  BoxArea(interactive_elements[i].rect)
                      <= BoxArea(interactive_elements[j].rect)
            /\ \A k \in 1..n :
                  LET a == BoxArea(interactive_elements[k].rect)
                  IN  IsSubsequence(AreaClass(interactive_elements, a),
                                    AreaClass(all_elements, a))

\* A second run of the filter on the same scan leaves the list and the
\* drawing as the first run made them.
C22_SecondRunAgrees ==
    pc = "captured" =>
        /\ interactive_elements' = interactive_elements
        /\ drawn' = drawn

OutOfView(r) == r.x < 0 \/ r.y < 0 \/ r.width <= 5 \/ r.height <= 5

\* The intersection of two boxes is above 0.9 of their union.
NearDuplicate(r1, r2) ==
    LET shared == SharedArea(r1, r2)
    IN  shared * 10 > (BoxArea(r1) + BoxArea(r2) - shared) * 9

\* Above 0.95 of the box r1 lies within r2.
MostlyWithin(r1, r2) == SharedArea(r1, r2) * 100 > BoxArea(r1) * 95

\* A reason the filter has for dropping the scanned element e.
StatedReason(e) ==
    \/ OutOfView(e.rect)
    \/ ~InputLike(e) /\ BoxArea(e.rect) > 250000
    \/ /\ ~InputLike(e)
       /\ \E q \in 1..Len(interactive_elements) :
             \/ NearDuplicate(e.rect, interactive_elements[q].rect)
             \/ MostlyWithin(e.rect, interactive_elements[q].rect)

\* Every scanned element that is not in the output as often as it was
\* scanned has a stated reason.
DroppedForAReason ==
    \A p \in 1..Len(all_elements) :
        LET e == SansIndex(all_elements[p])
        IN  Occurrences(interactive_elements, e) < Occurrences(all_elements, e)
                => StatedReason(e)

\* The pairs of scan positions p < q that hold near-duplicate non-input
\* boxes, each scanned no more often than the pair needs.
NearDuplicatePairs ==
    { pr \in (1..Len(all_elements)) \X (1..Len(all_elements)) :
        LET e1 == SansIndex(all_elements[pr[1]])
            e2 == SansIndex(all_elements[pr[2]])
        IN  /\ pr[1] < pr[2]
            /\ ~InputLike(e1) /\ ~InputLike(e2)
            /\ NearDuplicate(e1.rect, e2.rect)
            /\ Occurrences(all_elements, e1) = (IF e1 = e2 THEN 2 ELSE 1)
            /\ Occurrences(all_elements, e2) = (IF e1 = e2 THEN 2 ELSE 1) }

\* How many of the two elements of a pair are in the output.
PairSurvivors(pr) ==
    LET e1 == SansIndex(all_elements[pr[1]])
        e2 == SansIndex(all_elements[pr[2]])
    IN  IF e1 = e2 THEN Occurrences(interactive_elements, e1)
        ELSE Occurrences(interactive_elements, e1)
                + Occurrences(interactive_elements, e2)

\* The smaller element of a pair is in the output (either, when the areas
\* are equal).
SmallerSurvives(pr) ==
    LET e1 == SansIndex(all_elements[pr[1]])
        e2 == SansIndex(all_elements[pr[2]])
    IN  /\ BoxArea(e1.rect) < BoxArea(e2.rect)
            => Occurrences(interactive_elements, e1) = 1
        /\ BoxArea(e2.rect) < BoxArea(e1.rect)
            => Occurrences(interactive_elements, e2) = 1

\* C23, as stated: the filter drops a scanned element only for a stated
\* reason, and of two near-duplicate non-input boxes exactly one survives,
\* the one of smaller area.
C23_DropReasonsExactlyOne ==
    pc = "captured" =>
        /\ DroppedForAReason
        /\ \A pr \in NearDuplicatePairs :
              PairSurvivors(pr) = 1 /\ SmallerSurvives(pr)

\* C23, amended: the filter drops a scanned element only for a stated
\* reason; of two near-duplicate non-input boxes at most one survives; and
\* when the scan holds just the two, both in view and neither above the
\* area ceiling, exactly one survives: the smaller one, or the one scanned
\* first when their areas are equal.
C23_DropReasonsAtMostOne ==
    pc = "captured" =>
        /\ DroppedForAReason
        /\ \A pr \in NearDuplicatePairs :
              /\ PairSurvivors(pr) <= 1
              /\ ( /\ Len(all_elements) = 2
                   /\ \A p \in 1..2 :
                         /\ ~OutOfView(all_elements[p].rect)
                         /\ BoxArea(all_elements[p].rect) <= 250000 )
                 => /\ Len(interactive_elements) = 1
                    /\ SmallerSurvives(pr)
                    /\ BoxArea(all_elements[1].rect) = BoxArea(all_elements[2].rect)
                          => SansIndex(interactive_elements[1])
                                = SansIndex(all_elements[1])

\* The button, its near-duplicate span and a link that is a near-duplicate
\* of the span only: the link and the button survive, the span, the
\* smaller of the first pair, does not.
C23_SpanLostToTheLink ==
    /\ pc = "captured"
    /\ Len(all_elements) = 3
    /\ all_elements[1].tagName = "button"
    /\ all_elements[2].tagName = "span"
    /\ all_elements[3].tagName = "a"
    /\ NearDuplicate(all_elements[1].rect, all_elements[2].rect)
    /\ Len(interactive_elements) = 2
    /\ interactive_elements[1].tagName = "a"
    /\ interactive_elements[2].tagName = "button"
    /\ StatedReason(SansIndex(all_elements[2]))

\* ------------------------------------------------------------------------
\* Properties of click_element's page events (ResolverSpec, Spec)
\* ------------------------------------------------------------------------

\* Twice the centre of a box, per axis: the centre in half pixels.
TwiceCentreX(r) == r.x + r.x + r.width

TwiceCentreY(r) == r.y + r.y + r.height

\* The positions of the step's page events of kind e.
EventsOf(e) == { k \in 1..Len(actuator_log) : actuator_log[k].e = e }

\* C24: for a coordinate click the execution point is the centre of the
\* resolved box, and the events occur in the order marker shown at that
\* point, audit screenshot, mouse click at that same point; the click never
\* precedes the marker, and a call in which no await fails delivers all
\* three.
C24_MarkerScreenshotClickAtCentre ==
    (pc # "act" /\ resolution.has_coords) =>
        LET px == TwiceCentreX(resolution.coords)
            py == TwiceCentreY(resolution.coords)
        IN  /\ \A k \in EventsOf("cursor") :
                  actuator_log[k].x = px /\ actuator_log[k].y = py
            /\ \A k \in EventsOf("mouse_click") :
                  /\ k >= 3
                  /\ actuator_log[k].x = px /\ actuator_log[k].y = py
                  /\ actuator_log[k - 1].e = "screenshot"
                  /\ actuator_log[k - 2].e = "cursor"
                  /\ actuator_log[k - 2].x = px /\ actuator_log[k - 2].y = py
                  /\ \A j \in EventsOf("mouse_click") : j = k
            /\ (error = "none" /\ EventsOf("locator_click") = {})
                  => EventsOf("mouse_click") = {3}

\* The icon button of 21 by 21 pixels at (50,10) is clicked at (60.5,20.5):
\* marker, screenshot, click.
C24_IconClickedAtHalfPixel ==
    /\ pc = "loop"
    /\ resolution.has_coords
    /\ resolution.coords = Rect(50, 10, 21, 21)
    /\ Len(actuator_log) >= 3
    /\ actuator_log[1] = Event("cursor", 121, 41)
    /\ actuator_log[2].e = "screenshot"
    /\ actuator_log[3] = Event("mouse_click", 121, 41)

\* ------------------------------------------------------------------------
\* Termination (FairSpec)
\* ------------------------------------------------------------------------

\* run_task has returned or raised.
Returned == pc \in {"done", "raised"}

\* Every run ends: the loop cannot cycle forever.
C25_EveryRunEnds == <>Returned

\* C25: when every Oracle and Actuator call returns or fails, every run
\* eventually reaches a terminal state and has performed its end-of-run
\* manifest write (or has failed in creating the output directory or in
\* the write itself).
C25_EveryRunEndsWithManifest ==
    <>(/\ Returned
       /\ Len(manifest) >= 1 \/ error \in {"makedirs", "manifest"})

\* ------------------------------------------------------------------------
\* What the loop guard tells apart (Spec)
\* ------------------------------------------------------------------------

\* The entry of a parameter dict, or a mark for a missing entry.
Entry(d, name) == DictGet(d, name, [t |-> "absent", s |-> "", n |-> 0])

\* Steps i and j propose the same action kind with the same text and the
\* same element_index (each present and equal, or missing in both).
SameKindTextIndex(i, j) ==
    /\ history[i].params.t = "dict"
    /\ history[j].params.t = "dict"
    /\ history[i].action = history[j].action
    /\ Entry(history[i].params.d, "text") = Entry(history[j].params.d, "text")
    /\ Entry(history[i].params.d, "element_index")
          = Entry(history[j].params.d, "element_index")

\* C26: the loop guard's key ignores every parameter other than text and
\* element_index: three consecutive proposals of the same action kind that
\* differ only in key, direction, url or selector are treated as identical
\* and halt the run, stalled, on the third.
C26_OtherParametersIgnored ==
    LET n == Len(history)
    IN  (n >= 3 /\ SameKindTextIndex(n, n - 1) /\ SameKindTextIndex(n - 1, n - 2))
            => /\ outcome = "stalled"
               /\ consecutive_same_action = 3
               /\ n \notin dispatched
               /\ pc \in {"finally", "done", "raised"}

\* press Tab, press Tab, press Enter at steps 3 to 5: the run is stalled at
\* step 5 and Enter is never pressed.
C26_TabTabEnterStalls ==
    /\ outcome = "stalled"
    /\ Len(history) = 5
    /\ history[3].action = PyStr("press")
    /\ Entry(history[3].params.d, "key") = PyStr("Tab")
    /\ Entry(history[4].params.d, "key") = PyStr("Tab")
    /\ Entry(history[5].params.d, "key") = PyStr("Enter")
    /\ dispatched = 1..4
    /\ pc = "done"

\* C27: a single click action delivers at most one click to the page:
\* whatever step of click_element fails, the page never receives both a
\* coordinate mouse click and a locator (selector or text) click for the
\* same proposal.
C27_AtMostOneClickPerProposal ==
    (step \in dispatched /\ decision.action = PyStr("click")) =>
        Cardinality(EventsOf("mouse_click") \cup EventsOf("locator_click")) <= 1

\* C28: in click resolution with a valid index and a non-empty expected
\* text, an element whose text is empty is never the outcome of text
\* verification: neither the indexed element accepted as matching nor the
\* replacement picked after a mismatch has empty text.
C28_EmptyTextNeverVerified ==
    ( /\ ClickResolved
      /\ IndexInBounds
      /\ ExpectedText.t = "str"
      /\ ExpectedText.s # ""
      /\ ~resolution.raised )
        => /\ resolution.verified \in 0..(Len(interactive_elements) - 1)
           /\ interactive_elements[resolution.verified + 1].text # ""

\* ------------------------------------------------------------------------
\* The place of the loop guard in a step (Spec)
\* ------------------------------------------------------------------------

\* C29: the loop guard is evaluated after the proposal is recorded and
\* before it is executed: once the guard has stalled the run at step n, the
\* proposal of step n is the n-th entry of history and of the StepRecords
\* (and of a manifest that was written), no action of step n went to the
\* Actuator, and at most n-1 actions were dispatched in the run.
C29_GuardBetweenRecordAndDispatch ==
    outcome = "stalled" =>
        /\ Len(history) = step
        /\ history[step].step = step
        /\ history[step].action = DictGet(decision, "action", PyNone)
        /\ history[step].params = DictGet(decision, "params", EmptyDict)
        /\ Len(captured_states) = step
        /\ captured_states[step].step = step
        /\ captured_states[step].action_taken = DictGet(decision, "action", PyNone)
        /\ captured_states[step].action_params = DictGet(decision, "params", PyNone)
        /\ \A k \in 1..Len(manifest) :
              /\ Len(manifest[k].states) = step
              /\ manifest[k].states[step] = captured_states[step]
        /\ pc = "done" => Len(manifest) = 1
        /\ step \notin dispatched
        /\ dispatched \subseteq 1..(step - 1)
        /\ Cardinality(dispatched) <= step - 1
        /\ actuator_log = <<>>
        /\ resolution = NoResolution

\* A run stalled at step 3 after two dispatched clicks: the third click is
\* in history and in the manifest, and was not dispatched.
C29_ThirdClickRecordedNotDispatched ==
    /\ pc = "done"
    /\ outcome = "stalled"
    /\ step = 3
    /\ dispatched = {1, 2}
    /\ Len(history) = 3
    /\ history[3].action = PyStr("click")
    /\ Len(manifest) = 1
    /\ manifest[1].states[3].action_taken = PyStr("click")
    /\ actuator_log = <<>>

====
